---- MODULE Spec2Model ----
(***************************************************************************)
(* shopvac: the pod sweep (src/client/bin/main.rs) and the PodCleaner      *)
(* controller (src/controller/bin/main.rs) as state machines.              *)
(*                                                                         *)
(* Spec        one sweep pass, over a small cluster whose first pod takes  *)
(*             every namespace and creation timestamp of the model, or     *)
(*             over a batch larger than the buffer of the delete fan-out   *)
(* SpecLive    the sweep under fairness of its steps and of the delete     *)
(*             calls it has issued                                         *)
(* SpecChurn   the sweep while other actors delete and create pods         *)
(* SpecScheduled  the sweep started by the CronJob of an instance          *)
(* SpecCtl     reconcile passes of the controller                          *)
(* SpecGc      the controller while instances are deleted and their        *)
(*             children are garbage collected                              *)
(* SpecHeal    the controller left running, under fairness, while other    *)
(*             actors delete or edit children                              *)
(***************************************************************************)
EXTENDS Integers, Sequences, FiniteSets, TLC

VARIABLES
    args,         \* sweep: the parsed command line (struct Args)
    cluster,      \* sweep: the pods of the cluster, in the order a list call returns them
    pc,           \* sweep: position of main()
    pod_list,     \* sweep: result of pods.list(&lp)
    bad_pods,     \* sweep: Vec<String> of the names to delete
    reported,     \* sweep: the count logged by "Total of {} pods to delete found."
    next_idx,     \* sweep: number of elements the buffered stream has taken from bad_pods
    in_flight,    \* sweep: indices of bad_pods whose delete call is issued and not completed
    results,      \* sweep: index of bad_pods -> outcome of its completed delete call
    delete_calls, \* sweep: the names of the delete calls issued, in order of issue
    faults_left,  \* sweep: transient API failures the environment may still inject
    churn_left,   \* sweep: pod deletions and creations other actors may still make
    exit_code,    \* sweep: exit code of the process, None while running
    instances,    \* controller: the PodCleaner objects, by index
    children,     \* controller: the generated objects of the cluster, by key
    pass,         \* controller: per instance, the state of its reconcile pass
    passes_left,  \* controller: reconcile passes the controller may still start
    api_faults,   \* controller: apply failures the environment may still inject
    crashed,      \* controller: the process has panicked
    deleted,      \* controller: the indices of the instances that were deleted
    oob_left      \* controller: changes of children by other actors still to come

vars == <<args, cluster, pc, pod_list, bad_pods, reported, next_idx, in_flight,
          results, delete_calls, faults_left, churn_left, exit_code,
          instances, children, pass, passes_left, api_faults, crashed,
          deleted, oob_left>>

sweepVars == <<args, cluster, pc, pod_list, bad_pods, reported, next_idx,
               in_flight, results, delete_calls, faults_left, churn_left, exit_code>>

ctlVars == <<instances, children, pass, passes_left, api_faults, crashed,
             deleted, oob_left>>

\* Option<T>: None, or Some(x).
None == <<>>

Some(x) == <<x>>

(***************************************************************************)
(* Bounds of the model.                                                    *)
(***************************************************************************)
MaxPods == 2
MaxAgeDays == 4
MaxBatch == 11
MaxFailures == 1
MaxPasses == 3
MaxApiFaults == 2
MaxLiveBatch == 3
MaxChurn == 2
MaxOob == 1

(***************************************************************************)
(* Constants of the program.                                               *)
(***************************************************************************)
DefaultOlderThan == 3
BufferLimit == 10
DaySecs == 86400
RequeueOk == 300
RequeueErr == 1

(***************************************************************************)
(* Strings that the program inspects are sequences of characters.          *)
(***************************************************************************)
NsDefault == <<"d", "e", "f", "a", "u", "l", "t">>
NsKubeSystem == <<"k", "u", "b", "e", "-", "s", "y", "s", "t", "e", "m">>
NsMyKube == <<"m", "y", "-", "k", "u", "b", "e">>
NsOpenshift == <<"o", "p", "e", "n", "s", "h", "i", "f", "t">>
NsCi == <<"c", "i">>

Namespaces == {NsDefault, NsCi, NsKubeSystem, NsMyKube, NsOpenshift}

LitKube == <<"k", "u", "b", "e">>
LitOpenshift == <<"o", "p", "e", "n", "s", "h", "i", "f", "t">>

\* The default of --exclude-namespace-pattern, and a pattern that does not compile.
DefaultPattern == "(openshift.*)|(kube.*)"
BrokenPattern == "(openshift.*"
Patterns == {DefaultPattern, BrokenPattern}

\* Faulty variant of RegexNewOk: a pattern that does not compile is accepted.
RegexNewOkAny(pattern) == pattern \in Patterns

\* Regex::new: Ok for the default pattern, Err for the unbalanced one.
RegexNewOk(pattern) == pattern = DefaultPattern

\* lit occurs in s starting at position i.
OccursAt(s, i, lit) ==
    /\ i >= 1
    /\ i + Len(lit) - 1 <= Len(s)
    /\ SubSeq(s, i, i + Len(lit) - 1) = lit

\* The default pattern matched against the whole text, from its first character.
AnchoredMatch(ns) == OccursAt(ns, 1, LitOpenshift) \/ OccursAt(ns, 1, LitKube)

\* Regex::is_match of (openshift.*)|(kube.*): a match may start anywhere in the
\* text, and .* matches whatever follows the literal, the empty rest included.
is_match(ns) ==
    \E i \in 1..Len(ns) : OccursAt(ns, i, LitOpenshift) \/ OccursAt(ns, i, LitKube)

(***************************************************************************)
(* Time. Timestamps are seconds; now is Utc::now() of the filter.          *)
(***************************************************************************)
Now == (MaxAgeDays + 2) * DaySecs

\* The ages of the model: each whole day and one second past it, and a pod whose
\* creation timestamp is one second ahead of the clock of the sweep.
Ages == {-1} \cup {d * DaySecs + o : d \in 0..MaxAgeDays, o \in {0, 1}}

CreationTimestamps == {Some(Now - a) : a \in Ages} \cup {None}

StaleTimestamp == Some(Now - MaxAgeDays * DaySecs)

\* Faulty variant of num_days: rounds down, which differs for negative durations.
num_days_floor(secs) == secs \div DaySecs

\* chrono Duration::num_days: num_seconds() / 86400, Rust's integer division,
\* which truncates toward zero.
num_days(secs) ==
    IF secs >= 0 THEN secs \div DaySecs ELSE -((-secs) \div DaySecs)

(***************************************************************************)
(* Sequences.                                                              *)
(***************************************************************************)
Range(s) == {s[i] : i \in 1..Len(s)}

NamesOf(s) == [i \in 1..Len(s) |-> s[i].name]

Count(s, x) == Cardinality({i \in 1..Len(s) : s[i] = x})

(***************************************************************************)
(* The sweep: src/client/bin/main.rs                                       *)
(***************************************************************************)
PodNames == {1, 2}

\* The first pod of the cluster takes every namespace and creation timestamp.
ProbePods == [ns : Namespaces, name : {1}, ct : CreationTimestamps]

\* The pods beside it are stale pods of namespaces that are not exempt.
NeighbourPods == [ns : {NsDefault, NsCi}, name : PodNames, ct : {StaleTimestamp}]

\* (namespace, name) identifies a pod of the cluster.
UniqueIdentities(s) ==
    \A i, j \in 1..Len(s) :
        (s[i].ns = s[j].ns /\ s[i].name = s[j].name) => i = j

RECURSIVE ClustersOfLen(_)
ClustersOfLen(n) ==
    IF n = 0 THEN {<<>>}
    ELSE IF n = 1 THEN {<<p>> : p \in ProbePods}
    ELSE {c \in {Append(s, p) : s \in ClustersOfLen(n - 1), p \in NeighbourPods} :
              UniqueIdentities(c)}

Clusters == UNION {ClustersOfLen(n) : n \in 0..MaxPods}

OlderThans == {-1, DefaultOlderThan}

\* The command lines of the model: every scope, threshold and mode under the
\* default pattern, and one with a pattern that does not compile.
ArgsSet ==
    [namespace : {None, Some(NsDefault), Some(NsKubeSystem)},
     older_than : OlderThans,
     actually_delete : BOOLEAN,
     exclude_namespace_pattern : {DefaultPattern}]
    \cup
    [namespace : {None},
     older_than : {DefaultOlderThan},
     actually_delete : {TRUE},
     exclude_namespace_pattern : {BrokenPattern}]

SweepStart ==
    /\ pc = "start"
    /\ pod_list = <<>>
    /\ bad_pods = <<>>
    /\ reported = None
    /\ next_idx = 0
    /\ in_flight = {}
    /\ results = <<>>
    /\ delete_calls = <<>>
    /\ exit_code = None

CtlIdle ==
    /\ instances = <<>>
    /\ children = <<>>
    /\ pass = <<>>
    /\ passes_left = 0
    /\ api_faults = 0
    /\ crashed = FALSE
    /\ deleted = {}
    /\ oob_left = 0

InitCluster ==
    /\ args \in ArgsSet
    /\ cluster \in Clusters
    /\ faults_left = MaxFailures
    /\ churn_left = 0
    /\ SweepStart
    /\ CtlIdle

\* A batch larger than the buffer: stale pods of one namespace, swept for real,
\* with one failure of the API to come.
FanoutCluster(n) == [i \in 1..n |-> [ns |-> NsDefault, name |-> i, ct |-> StaleTimestamp]]

InitFanout ==
    /\ args = [namespace |-> Some(NsDefault), older_than |-> DefaultOlderThan,
               actually_delete |-> TRUE, exclude_namespace_pattern |-> DefaultPattern]
    /\ \E n \in 0..MaxBatch : cluster = FanoutCluster(n)
    /\ faults_left = 1
    /\ churn_left = 0
    /\ SweepStart
    /\ CtlIdle

\* Client::try_default().await? succeeds; Api::namespaced or Api::all is chosen from args.
Connect ==
    /\ pc = "start"
    /\ pc' = "connected"
    /\ UNCHANGED <<args, cluster, pod_list, bad_pods, reported, next_idx, in_flight,
                   results, delete_calls, faults_left, exit_code>>
    /\ UNCHANGED <<churn_left, ctlVars>>

\* Client::try_default().await? fails: main returns Err.
ConnectFail ==
    /\ pc = "start"
    /\ pc' = "failed"
    /\ exit_code' = Some(1)
    /\ UNCHANGED <<args, cluster, pod_list, bad_pods, reported, next_idx, in_flight,
                   results, delete_calls, faults_left>>
    /\ UNCHANGED <<churn_left, ctlVars>>

\* Regex::new(&args.exclude_namespace_pattern)?
CompileRegex ==
    /\ pc = "connected"
    /\ IF RegexNewOk(args.exclude_namespace_pattern)
       THEN pc' = "compiled" /\ UNCHANGED exit_code
       ELSE pc' = "failed" /\ exit_code' = Some(1)
    /\ UNCHANGED <<args, cluster, pod_list, bad_pods, reported, next_idx, in_flight,
                   results, delete_calls, faults_left>>
    /\ UNCHANGED <<churn_left, ctlVars>>

\* The pods a list call of this Api returns: all, or those of args.namespace.
InScope(p) == args.namespace = None \/ p.ns = args.namespace[1]

\* pods.list(&lp).await? succeeds.
List ==
    /\ pc = "compiled"
    /\ pod_list' = SelectSeq(cluster, InScope)
    /\ pc' = "listed"
    /\ UNCHANGED <<args, cluster, bad_pods, reported, next_idx, in_flight,
                   results, delete_calls, faults_left, exit_code>>
    /\ UNCHANGED <<churn_left, ctlVars>>

\* pods.list(&lp).await? fails: main returns Err.
ListFail ==
    /\ pc = "compiled"
    /\ pc' = "failed"
    /\ exit_code' = Some(1)
    /\ UNCHANGED <<args, cluster, pod_list, bad_pods, reported, next_idx, in_flight,
                   results, delete_calls, faults_left>>
    /\ UNCHANGED <<churn_left, ctlVars>>

\* .filter(|p| !ns_regex.is_match(ns))
NotExcluded(p) == ~is_match(p.ns)

\* Faulty variant of IsBadPod: >= in place of >.
IsBadPodGe(p) ==
    /\ p.ct # None
    /\ num_days(Now - p.ct[1]) >= args.older_than

\* The closure of filter_map: Some(p.name()) iff the pod has a creation
\* timestamp and duration.num_days() > older_than.
IsBadPod(p) ==
    /\ p.ct # None
    /\ num_days(Now - p.ct[1]) > args.older_than

\* bad_pods.len() of the log line.
ReportedCount(b) == Len(b)

\* .filter(..).filter_map(..).collect() and the log line that follows it.
Filter ==
    /\ pc = "listed"
    /\ bad_pods' = NamesOf(SelectSeq(SelectSeq(pod_list, NotExcluded), IsBadPod))
    /\ reported' = Some(ReportedCount(bad_pods'))
    /\ pc' = "filtered"
    /\ UNCHANGED <<args, cluster, pod_list, next_idx, in_flight, results,
                   delete_calls, faults_left, exit_code>>
    /\ UNCHANGED <<churn_left, ctlVars>>

\* Faulty variant of WantsDelete: the flag is ignored.
WantsDeleteAlways == TRUE

\* if args.actually_delete
WantsDelete == args.actually_delete

\* The else branch: "Dry run initiated! Nothing was deleted.", then Ok(()).
DryRun ==
    /\ pc = "filtered"
    /\ ~WantsDelete
    /\ pc' = "done"
    /\ exit_code' = Some(0)
    /\ UNCHANGED <<args, cluster, pod_list, bad_pods, reported, next_idx, in_flight,
                   results, delete_calls, faults_left>>
    /\ UNCHANGED <<churn_left, ctlVars>>

\* "Starting deletions...": the buffered stream over &bad_pods is built.
StartDeletions ==
    /\ pc = "filtered"
    /\ WantsDelete
    /\ pc' = "deleting"
    /\ UNCHANGED <<args, cluster, pod_list, bad_pods, reported, next_idx, in_flight,
                   results, delete_calls, faults_left, exit_code>>
    /\ UNCHANGED <<churn_left, ctlVars>>

\* Faulty variant of HasRoom: off by one.
HasRoomLe == Cardinality(in_flight) <= BufferLimit

\* buffer_unordered(10) takes the next element only while fewer than 10 futures
\* are in progress.
HasRoom == Cardinality(in_flight) < BufferLimit

\* The stream takes the next name and its future issues pods.delete(name, dp).
IssueDelete ==
    /\ pc = "deleting"
    /\ next_idx < Len(bad_pods)
    /\ HasRoom
    /\ next_idx' = next_idx + 1
    /\ in_flight' = in_flight \cup {next_idx + 1}
    /\ delete_calls' = Append(delete_calls, bad_pods[next_idx + 1])
    /\ UNCHANGED <<args, cluster, pc, pod_list, bad_pods, reported, results,
                   faults_left, exit_code>>
    /\ UNCHANGED <<churn_left, ctlVars>>

\* The pod that DELETE <url_path>/<name> of this Api addresses. Api::namespaced
\* addresses the pod of that name in the namespace; Api::all has no namespace in
\* its path, and the API server has no pod under /api/v1/pods/<name>.
Addressed(name) ==
    IF args.namespace = None THEN {}
    ELSE {i \in 1..Len(cluster) :
              cluster[i].ns = args.namespace[1] /\ cluster[i].name = name}

Remove(s, gone) ==
    LET keep == {i \in 1..Len(s) : i \notin gone}
        F[k \in 0..Len(s)] ==
            IF k = 0 THEN <<>>
            ELSE IF k \in keep THEN Append(F[k - 1], s[k]) ELSE F[k - 1]
    IN F[Len(s)]

\* Faulty variant of AfterFailure: the first failed delete ends the pass (try_collect).
AfterFailureAbort == "done"

\* The results are collected into a Vec<Result>: an Err is one more element.
AfterFailure == "deleting"

\* A delete call completes, in any order: the server accepts it and removes the
\* pod, or it fails (no such pod, or a failure of the API) and removes nothing.
CompleteDelete ==
    /\ pc = "deleting"
    /\ \E i \in in_flight :
        /\ in_flight' = in_flight \ {i}
        /\ \/ /\ Addressed(bad_pods[i]) # {}
              /\ cluster' = Remove(cluster, Addressed(bad_pods[i]))
              /\ results' = (i :> "ok") @@ results
              /\ UNCHANGED <<faults_left, pc, exit_code>>
           \/ /\ Addressed(bad_pods[i]) = {}
              /\ results' = (i :> "err") @@ results
              /\ pc' = AfterFailure
              /\ exit_code' = IF pc' = "done" THEN Some(0) ELSE exit_code
              /\ UNCHANGED <<cluster, faults_left>>
           \/ /\ Addressed(bad_pods[i]) # {}
              /\ faults_left > 0
              /\ faults_left' = faults_left - 1
              /\ results' = (i :> "err") @@ results
              /\ pc' = AfterFailure
              /\ exit_code' = IF pc' = "done" THEN Some(0) ELSE exit_code
              /\ UNCHANGED cluster
    /\ UNCHANGED <<args, pod_list, bad_pods, reported, next_idx, delete_calls>>
    /\ UNCHANGED <<churn_left, ctlVars>>

\* Faulty variant of Drained: the futures in progress are not awaited.
DrainedEarly == next_idx = Len(bad_pods)

\* The buffered stream has ended: no name is left and no future is in progress.
Drained == next_idx = Len(bad_pods) /\ in_flight = {}

\* collect::<Vec<_>>().await returns when the stream has ended; main returns Ok(()).
Finish ==
    /\ pc = "deleting"
    /\ Drained
    /\ pc' = "done"
    /\ exit_code' = Some(0)
    /\ UNCHANGED <<args, cluster, pod_list, bad_pods, reported, next_idx, in_flight,
                   results, delete_calls, faults_left>>
    /\ UNCHANGED <<churn_left, ctlVars>>

NextSweep ==
    \/ Connect
    \/ ConnectFail
    \/ CompileRegex
    \/ List
    \/ ListFail
    \/ Filter
    \/ DryRun
    \/ StartDeletions
    \/ IssueDelete
    \/ CompleteDelete
    \/ Finish

Next == NextSweep

Init == InitCluster \/ InitFanout

Spec == Init /\ [][Next]_vars

(***************************************************************************)
(* The controller: src/controller/bin/main.rs                              *)
(***************************************************************************)
\* The text of a namespace, as it appears in object metadata and arguments.
NsText(ns) ==
    CASE ns = NsDefault -> "default"
      [] ns = NsCi -> "ci"
      [] ns = NsKubeSystem -> "kube-system"
      [] ns = NsMyKube -> "my-kube"
      [] ns = NsOpenshift -> "openshift"

\* PodCleanerSpec
CleanerSpecs ==
    [schedule : {"0 * * * *"},
     delete_older_than : OlderThans,
     label_selector : {None, Some("app=build")},
     field_selector : {None, Some("status.phase=Succeeded")}]

PlainSpec ==
    [schedule |-> "0 * * * *", delete_older_than |-> DefaultOlderThan,
     label_selector |-> None, field_selector |-> None]

\* The metadata of an instance, with one of its keys missing or with none missing.
Defects == {"none", "namespace", "name", "uid"}

Meta(ns, name, uid, defect) ==
    [namespace |-> IF defect = "namespace" THEN None ELSE Some(ns),
     name |-> IF defect = "name" THEN None ELSE Some(name),
     uid |-> IF defect = "uid" THEN None ELSE Some(uid)]

FirstInstances ==
    {[metadata |-> Meta(NsCi, "a", "uid-1", d), spec |-> sp] :
        d \in Defects, sp \in CleanerSpecs}

\* A second instance: in the namespace of the first, or of its name elsewhere.
SecondInstances ==
    {[metadata |-> Meta(NsCi, "b", "uid-2", d), spec |-> PlainSpec] : d \in Defects}
    \cup
    {[metadata |-> Meta(NsDefault, "a", "uid-2", d), spec |-> PlainSpec] : d \in Defects}

IdlePass ==
    [pc |-> "idle", calls |-> <<>>, applied |-> 0, outcome |-> None,
     error |-> None, requeue |-> None, failures |-> 0, started |-> 0]

InitCtl ==
    /\ \/ \E g \in FirstInstances : instances = <<g>>
       \/ \E g \in FirstInstances, h \in SecondInstances : instances = <<g, h>>
    /\ children = <<>>
    /\ pass = [i \in 1..Len(instances) |-> IdlePass]
    /\ passes_left = MaxPasses
    /\ api_faults = MaxApiFaults
    /\ crashed = FALSE
    /\ deleted = {}
    /\ oob_left = 0
    /\ args = None
    /\ cluster = <<>>
    /\ faults_left = 0
    /\ churn_left = 0
    /\ SweepStart

\* Faulty variant of controller_owner_ref: the reference names the first instance.
controller_owner_ref_first(i) ==
    IF instances[1].metadata.name = None \/ instances[1].metadata.uid = None
    THEN None
    ELSE Some([apiVersion |-> "shopvac.io/v1", kind |-> "PodCleaner",
               name |-> instances[1].metadata.name[1],
               uid |-> instances[1].metadata.uid[1],
               controller |-> TRUE])

\* Resource::controller_owner_ref: None when the object has no name or no uid.
controller_owner_ref(i) ==
    IF instances[i].metadata.name = None \/ instances[i].metadata.uid = None
    THEN None
    ELSE Some([apiVersion |-> "shopvac.io/v1", kind |-> "PodCleaner",
               name |-> instances[i].metadata.name[1],
               uid |-> instances[i].metadata.uid[1],
               controller |-> TRUE])

\* Some(vec![generator.controller_owner_ref(&()).unwrap()])
OwnerReferences(i) == <<controller_owner_ref(i)[1]>>

\* The ServiceAccount of lines 89-102. applied_by is no field of the object: it
\* records the instance whose pass applied it, here and in the objects below.
ServiceAccountOf(i) ==
    [kind |-> "ServiceAccount",
     namespace |-> NsText(instances[i].metadata.namespace[1]),
     name |-> "shopvac",
     ownerReferences |-> OwnerReferences(i),
     applied_by |-> i]

\* Faulty variant of RoleBindingOf: the binding is written to the namespace default.
RoleBindingOfDefault(i) ==
    [kind |-> "RoleBinding",
     namespace |-> "default",
     name |-> "shopvac-delete-rb",
     ownerReferences |-> OwnerReferences(i),
     roleRef |-> "shopvac-pod-deletion-role",
     subjects |-> <<"shopvac">>,
     applied_by |-> i]

\* The RoleBinding of lines 116-140.
RoleBindingOf(i) ==
    [kind |-> "RoleBinding",
     namespace |-> NsText(instances[i].metadata.namespace[1]),
     name |-> "shopvac-delete-rb",
     ownerReferences |-> OwnerReferences(i),
     roleRef |-> "shopvac-pod-deletion-role",
     subjects |-> <<"shopvac">>,
     applied_by |-> i]

\* Faulty variant of CleanerArgs: a selector that is absent is passed as an empty text.
CleanerArgsBlank(i) ==
    LET sp == instances[i].spec IN
    <<"--actually-delete", "-n", NsText(instances[i].metadata.namespace[1])>>
    \o <<"-l", IF sp.label_selector # None THEN sp.label_selector[1] ELSE "">>
    \o <<"-f", IF sp.field_selector # None THEN sp.field_selector[1] ELSE "">>
    \o <<"--older-than", ToString(sp.delete_older_than)>>

\* Faulty variant of CleanerArgs: the namespace of the instance is not passed.
CleanerArgsNoNamespace(i) ==
    LET sp == instances[i].spec IN
    <<"--actually-delete">>
    \o (IF sp.label_selector # None THEN <<"-l", sp.label_selector[1]>> ELSE <<>>)
    \o (IF sp.field_selector # None THEN <<"-f", sp.field_selector[1]>> ELSE <<>>)
    \o <<"--older-than", ToString(sp.delete_older_than)>>

\* The arguments of the cleaner binary, lines 164-188.
CleanerArgs(i) ==
    LET sp == instances[i].spec IN
    <<"--actually-delete", "-n", NsText(instances[i].metadata.namespace[1])>>
    \o (IF sp.label_selector # None THEN <<"-l", sp.label_selector[1]>> ELSE <<>>)
    \o (IF sp.field_selector # None THEN <<"-f", sp.field_selector[1]>> ELSE <<>>)
    \o <<"--older-than", ToString(sp.delete_older_than)>>

\* The CronJob of lines 191-223.
CronJobOf(i) ==
    [kind |-> "CronJob",
     namespace |-> NsText(instances[i].metadata.namespace[1]),
     name |-> instances[i].metadata.name[1] \o "-clean-job",
     ownerReferences |-> OwnerReferences(i),
     schedule |-> instances[i].spec.schedule,
     serviceAccountName |-> "shopvac",
     restartPolicy |-> "Never",
     image |-> "quay.io/wseaton/shopvac:latest",
     args |-> CleanerArgs(i),
     applied_by |-> i]

KeyOf(obj) == <<obj.kind, obj.namespace, obj.name>>

\* Faulty variant of Applied: the applied owner references are added to those the
\* object has, as a merge by another field manager would.
AppliedMerged(obj) ==
    IF KeyOf(obj) \in DOMAIN children
    THEN (KeyOf(obj) :> [obj EXCEPT !.ownerReferences =
                            children[KeyOf(obj)].ownerReferences \o @]) @@ children
    ELSE (KeyOf(obj) :> obj) @@ children

\* Patch::Apply under the one field manager of the controller: the object of
\* that key holds the applied fields and nothing else this manager set before.
Applied(obj) == (KeyOf(obj) :> obj) @@ children

\* Faulty variant of error_policy: a missing key is not retried soon.
error_policy_by_kind(error) ==
    IF error = "MissingObjectKey" THEN RequeueOk ELSE RequeueErr

\* error_policy: Action::requeue(Duration::from_secs(1)), whatever the error.
error_policy(error) == RequeueErr

\* The controller calls reconcile for an existing instance i (an event, or its
\* requeue is due); the counters of the pass stop counting at MaxPasses.
\* Lines 81-102: without a namespace the pass ends with MissingObjectKey;
\* without a name or a uid the unwrap of controller_owner_ref panics.
Begin(i) ==
    /\ ~crashed
    /\ i \notin deleted
    /\ pass[i].pc = "idle"
    /\ LET fresh == [pass[i] EXCEPT !.calls = <<>>, !.applied = 0, !.outcome = None,
                                    !.error = None, !.requeue = None,
                                    !.started = IF @ < MaxPasses THEN @ + 1 ELSE @]
       IN  IF instances[i].metadata.namespace = None
           THEN /\ pass' = [pass EXCEPT ![i] =
                               [fresh EXCEPT !.outcome = Some("err"),
                                             !.error = Some("MissingObjectKey"),
                                             !.requeue = Some(error_policy("MissingObjectKey")),
                                             !.failures = IF @ < MaxPasses THEN @ + 1 ELSE @]]
                /\ UNCHANGED crashed
           ELSE IF controller_owner_ref(i) = None
           THEN /\ crashed' = TRUE
                /\ pass' = [pass EXCEPT ![i] = [fresh EXCEPT !.pc = "panicked"]]
           ELSE /\ pass' = [pass EXCEPT ![i] = [fresh EXCEPT !.pc = "sa"]]
                /\ UNCHANGED crashed
    /\ UNCHANGED <<instances, children, api_faults, deleted, oob_left>>
    /\ UNCHANGED sweepVars

\* One of the passes the controller starts in a run of bounded length.
Reconcile(i) ==
    /\ passes_left > 0
    /\ passes_left' = passes_left - 1
    /\ Begin(i)

\* Faulty variant of AfterApplyError: the error of a patch is dropped and the pass goes on.
AfterApplyErrorGoOn(step) ==
    CASE step = "sa" -> "rb"
      [] step = "rb" -> "cj"
      [] step = "cj" -> "idle"

\* .map_err(Error::CronJobCreationFailed)? returns from reconcile.
AfterApplyError(step) == "idle"

\* One patch call of the pass of instance i: at step, of obj, going on to next.
Apply(i, step, obj, next) ==
    /\ ~crashed
    /\ pass[i].pc = step
    /\ \/ /\ children' = Applied(obj)
          /\ pass' = [pass EXCEPT ![i] =
                IF next = "idle"
                THEN [@ EXCEPT !.pc = "idle", !.calls = Append(@, obj.kind),
                               !.applied = @ + 1, !.outcome = Some("ok"),
                               !.requeue = Some(RequeueOk), !.failures = 0]
                ELSE [@ EXCEPT !.pc = next, !.calls = Append(@, obj.kind),
                               !.applied = @ + 1]]
          /\ UNCHANGED api_faults
       \/ /\ api_faults > 0
          /\ api_faults' = api_faults - 1
          /\ pass' = [pass EXCEPT ![i] =
                LET called == [pass[i] EXCEPT !.calls = Append(@, obj.kind)] IN
                IF AfterApplyError(step) = "idle"
                THEN [called EXCEPT !.pc = "idle", !.outcome = Some("err"),
                                    !.error = Some("CronJobCreationFailed"),
                                    !.requeue = Some(error_policy("CronJobCreationFailed")),
                                    !.failures = IF @ < MaxPasses THEN @ + 1 ELSE @]
                ELSE [called EXCEPT !.pc = AfterApplyError(step)]]
          /\ UNCHANGED children
    /\ UNCHANGED <<instances, passes_left, crashed, deleted, oob_left>>
    /\ UNCHANGED sweepVars

\* sa_api.patch(.., &Patch::Apply(&sa)), lines 103-113
ApplyServiceAccount(i) == Apply(i, "sa", ServiceAccountOf(i), "rb")

\* rb_api.patch(.., &Patch::Apply(&rb)), lines 150-160
ApplyRoleBinding(i) == Apply(i, "rb", RoleBindingOf(i), "cj")

\* cj_api.patch(.., &Patch::Apply(&cj)), lines 236-246, and Ok(Action::requeue(..))
ApplyCronJob(i) == Apply(i, "cj", CronJobOf(i), "idle")

NextCtl ==
    \/ \E i \in 1..Len(instances) : Reconcile(i)
    \/ \E i \in 1..Len(instances) : ApplyServiceAccount(i)
    \/ \E i \in 1..Len(instances) : ApplyRoleBinding(i)
    \/ \E i \in 1..Len(instances) : ApplyCronJob(i)

SpecCtl == InitCtl /\ [][NextCtl]_vars

(***************************************************************************)
(* The sweep under the assumption that the steps of the process are taken  *)
(* and that every delete call that was issued completes.                   *)
(***************************************************************************)
SweepFairness ==
    /\ WF_vars(Filter)
    /\ WF_vars(DryRun)
    /\ WF_vars(StartDeletions)
    /\ WF_vars(IssueDelete)
    /\ WF_vars(CompleteDelete)
    /\ WF_vars(Finish)

\* Every command line over the small clusters, and the batches of one namespace
\* of up to MaxLiveBatch names.
InitLive == InitCluster \/ (InitFanout /\ Len(cluster) <= MaxLiveBatch)

SpecLive == InitLive /\ [][Next]_vars /\ SweepFairness

(***************************************************************************)
(* The sweep while other actors delete and create pods: between the list   *)
(* call and the end of the pass the cluster changes under it.              *)
(***************************************************************************)
\* A pod created after the filter has read the clock.
FreshTimestamp == Some(Now + 2)

ChurnPods == [ns : {NsDefault, NsCi}, name : PodNames, ct : {FreshTimestamp}]

Churning == pc \in {"listed", "filtered", "deleting"} /\ churn_left > 0

\* Another actor deletes a pod of the cluster.
OtherDelete ==
    /\ Churning
    /\ \E i \in 1..Len(cluster) : cluster' = Remove(cluster, {i})
    /\ churn_left' = churn_left - 1
    /\ UNCHANGED <<args, pc, pod_list, bad_pods, reported, next_idx, in_flight,
                   results, delete_calls, faults_left, exit_code>>
    /\ UNCHANGED ctlVars

\* Another actor creates a pod; its (namespace, name) is free at that time.
OtherCreate ==
    /\ Churning
    /\ \E p \in ChurnPods :
        /\ \A i \in 1..Len(cluster) :
               ~(cluster[i].ns = p.ns /\ cluster[i].name = p.name)
        /\ cluster' = Append(cluster, p)
    /\ churn_left' = churn_left - 1
    /\ UNCHANGED <<args, pc, pod_list, bad_pods, reported, next_idx, in_flight,
                   results, delete_calls, faults_left, exit_code>>
    /\ UNCHANGED ctlVars

InitChurn ==
    /\ args \in ArgsSet
    /\ cluster \in Clusters
    /\ faults_left = MaxFailures
    /\ churn_left = MaxChurn
    /\ SweepStart
    /\ CtlIdle

NextChurn == NextSweep \/ OtherDelete \/ OtherCreate

SpecChurn == InitChurn /\ [][NextChurn]_vars

(***************************************************************************)
(* The controller while instances are deleted: the garbage collector of    *)
(* the cluster removes a child once every owner it refers to is gone.      *)
(***************************************************************************)
\* The PodCleaner object of instance i is deleted; a pass in progress goes on.
DeleteInstance(i) ==
    /\ i \notin deleted
    /\ deleted' = deleted \cup {i}
    /\ UNCHANGED <<instances, children, pass, passes_left, api_faults, crashed, oob_left>>
    /\ UNCHANGED sweepVars

\* Every owner reference of obj (lines 93, 121, 218) names a deleted instance.
OwnersGone(obj) ==
    /\ Len(obj.ownerReferences) > 0
    /\ \A k \in 1..Len(obj.ownerReferences) :
           \E i \in deleted :
               instances[i].metadata.uid = Some(obj.ownerReferences[k].uid)

\* The garbage collector removes one child whose owners are gone.
GarbageCollect ==
    /\ \E key \in DOMAIN children :
        /\ OwnersGone(children[key])
        /\ children' = [k \in DOMAIN children \ {key} |-> children[k]]
    /\ UNCHANGED <<instances, pass, passes_left, api_faults, crashed, deleted, oob_left>>
    /\ UNCHANGED sweepVars

NextGc ==
    \/ NextCtl
    \/ \E i \in 1..Len(instances) : DeleteInstance(i)
    \/ GarbageCollect

SpecGc == InitCtl /\ [][NextGc]_vars

(***************************************************************************)
(* The controller left running: passes recur by their requeue, and other   *)
(* actors delete or edit generated children.                               *)
(***************************************************************************)
\* Faulty variant of RequeueDue: a pass that succeeded waits for a watch event.
RequeueDueOnError(i) == pass[i].started = 0 \/ pass[i].requeue = Some(RequeueErr)

\* The first event of an instance, or the requeue its last pass asked for
\* (Action::requeue of line 247 or of error_policy, line 310).
RequeueDue(i) == pass[i].started = 0 \/ pass[i].requeue # None

\* The requeue of instance i is due and the controller calls reconcile.
Timer(i) ==
    /\ RequeueDue(i)
    /\ Begin(i)
    /\ UNCHANGED passes_left

\* An object as another actor leaves it: a CronJob with another schedule, a
\* ServiceAccount or RoleBinding without its owner reference.
Edited(obj) ==
    IF obj.kind = "CronJob" THEN [obj EXCEPT !.schedule = "@yearly"]
    ELSE [obj EXCEPT !.ownerReferences = <<>>]

\* Another actor deletes a generated child.
OobDelete ==
    /\ oob_left > 0
    /\ oob_left' = oob_left - 1
    /\ \E key \in DOMAIN children :
           children' = [k \in DOMAIN children \ {key} |-> children[k]]
    /\ UNCHANGED <<instances, pass, passes_left, api_faults, crashed, deleted>>
    /\ UNCHANGED sweepVars

\* Another actor edits a generated child.
OobEdit ==
    /\ oob_left > 0
    /\ oob_left' = oob_left - 1
    /\ \E key \in DOMAIN children :
        /\ Edited(children[key]) # children[key]
        /\ children' = [children EXCEPT ![key] = Edited(@)]
    /\ UNCHANGED <<instances, pass, passes_left, api_faults, crashed, deleted>>
    /\ UNCHANGED sweepVars

\* The three children of instance i as a pass of i leaves them.
ChildrenOf(i) ==
    (KeyOf(ServiceAccountOf(i)) :> ServiceAccountOf(i))
    @@ (KeyOf(RoleBindingOf(i)) :> RoleBindingOf(i))
    @@ (KeyOf(CronJobOf(i)) :> CronJobOf(i))

\* A pass that has succeeded, of a controller that has run for long.
DonePass ==
    [pc |-> "idle", calls |-> <<"ServiceAccount", "RoleBinding", "CronJob">>,
     applied |-> 3, outcome |-> Some("ok"), error |-> None,
     requeue |-> Some(RequeueOk), failures |-> 0, started |-> MaxPasses]

\* One or two instances of the plain spec with every key of their metadata
\* present, each reconciled with success, the second after the first.
InitHeal ==
    /\ \/ \E g \in FirstInstances : instances = <<g>>
       \/ \E g \in FirstInstances, h \in SecondInstances : instances = <<g, h>>
    /\ \A i \in 1..Len(instances) :
        /\ instances[i].spec = PlainSpec
        /\ instances[i].metadata.namespace # None
        /\ instances[i].metadata.name # None
        /\ instances[i].metadata.uid # None
    /\ children = IF Len(instances) = 1 THEN ChildrenOf(1)
                  ELSE ChildrenOf(2) @@ ChildrenOf(1)
    /\ pass = [i \in 1..Len(instances) |-> DonePass]
    /\ passes_left = 0
    /\ api_faults = 1
    /\ crashed = FALSE
    /\ deleted = {}
    /\ oob_left = MaxOob
    /\ args = None
    /\ cluster = <<>>
    /\ faults_left = 0
    /\ churn_left = 0
    /\ SweepStart

NextHeal ==
    \/ \E i \in 1..Len(instances) : Timer(i)
    \/ \E i \in 1..Len(instances) : ApplyServiceAccount(i)
    \/ \E i \in 1..Len(instances) : ApplyRoleBinding(i)
    \/ \E i \in 1..Len(instances) : ApplyCronJob(i)
    \/ OobDelete
    \/ OobEdit

\* The requeue timers fire and the patch calls are answered.
HealFairness ==
    \A i \in 1..2 :
        /\ WF_vars(i <= Len(instances) /\ Timer(i))
        /\ WF_vars(i <= Len(instances) /\ ApplyServiceAccount(i))
        /\ WF_vars(i <= Len(instances) /\ ApplyRoleBinding(i))
        /\ WF_vars(i <= Len(instances) /\ ApplyCronJob(i))

SpecHeal == InitHeal /\ [][NextHeal]_vars /\ HealFairness

(***************************************************************************)
(* The sweep as the CronJob of an instance starts it: its command line is  *)
(* the argument vector reconcile wrote into the CronJob.                   *)
(***************************************************************************)
\* The namespace of a text.
NsOfText(t) == CHOOSE ns \in Namespaces : NsText(ns) = t

\* The value that follows flag in the argument vector a, if the flag is there.
ValueAfter(a, flag) ==
    IF \E k \in 1..(Len(a) - 1) : a[k] = flag
    THEN Some(a[(CHOOSE k \in 1..(Len(a) - 1) : a[k] = flag) + 1])
    ELSE None

\* Args::parse() of struct Args, for the flags reconcile passes: -n, --older-than
\* (default 3), --actually-delete; the pattern keeps its default. The selectors
\* -l and -f narrow the list call and are not part of the record of the model.
ParseArgs(a) ==
    [namespace |-> IF ValueAfter(a, "-n") = None THEN None
                   ELSE Some(NsOfText(ValueAfter(a, "-n")[1])),
     older_than |-> IF ValueAfter(a, "--older-than") = None THEN DefaultOlderThan
                    ELSE CHOOSE n \in OlderThans :
                             ToString(n) = ValueAfter(a, "--older-than")[1],
     actually_delete |-> "--actually-delete" \in Range(a),
     exclude_namespace_pattern |-> DefaultPattern]

\* An instance of a plain namespace, of another, and of an exempt namespace.
ScheduledInstances ==
    {[metadata |-> Meta(ns, "a", "uid-1", "none"), spec |-> sp] :
        ns \in {NsCi, NsDefault, NsKubeSystem},
        sp \in {s \in CleanerSpecs : s.field_selector = None}}

\* The instance has been reconciled and its CronJob starts the sweep.
InitScheduled ==
    /\ \E g \in ScheduledInstances : instances = <<g>>
    /\ children = ChildrenOf(1)
    /\ pass = <<DonePass>>
    /\ passes_left = 0
    /\ api_faults = 0
    /\ crashed = FALSE
    /\ deleted = {}
    /\ oob_left = 0
    /\ args = ParseArgs(children[KeyOf(CronJobOf(1))].args)
    /\ cluster \in Clusters
    /\ faults_left = MaxFailures
    /\ churn_left = 0
    /\ SweepStart

\* The steps of a sweep that deletes for real.
NextScheduled ==
    \/ Connect
    \/ ConnectFail
    \/ CompileRegex
    \/ List
    \/ ListFail
    \/ Filter
    \/ StartDeletions
    \/ IssueDelete
    \/ CompleteDelete
    \/ Finish

SpecScheduled == InitScheduled /\ [][NextScheduled]_vars

(***************************************************************************)
(* Properties of the sweep.                                                *)
(***************************************************************************)
\* The pass has computed its batch.
Filtered == pc \in {"filtered", "deleting", "done"}

Listed == 1..Len(pod_list)

AgeOf(p) == Now - p.ct[1]

\* No other listed pod has the name of pod_list[i]: the name in the batch is its own.
NoHomonym(i) == \A j \in Listed : pod_list[j].name = pod_list[i].name => j = i

InBatch(name) == name \in Range(bad_pods)

\* The whole days of a duration, rounded toward zero and rounded down.
WholeDaysTrunc(secs) ==
    CHOOSE q \in -(MaxAgeDays + 2)..(MaxAgeDays + 2) :
        IF secs >= 0
        THEN q * DaySecs <= secs /\ secs < (q + 1) * DaySecs
        ELSE (q - 1) * DaySecs < secs /\ secs <= q * DaySecs

WholeDaysFloor(secs) ==
    CHOOSE q \in -(MaxAgeDays + 2)..(MaxAgeDays + 2) :
        q * DaySecs <= secs /\ secs < (q + 1) * DaySecs

\* C1 as stated: with --older-than 3, a pod of a non-excluded namespace created
\* exactly 3*24h before now is not in the batch, and one created 3*24h + 1s before
\* now is in the batch.
C1_AgeBoundaryAsStated ==
    (Filtered /\ args.older_than = 3) =>
        \A i \in Listed :
            LET p == pod_list[i] IN
            (~is_match(p.ns) /\ p.ct # None) =>
                /\ (AgeOf(p) = 3 * DaySecs /\ NoHomonym(i)) => ~InBatch(p.name)
                /\ AgeOf(p) = 3 * DaySecs + 1 => InBatch(p.name)

\* C1 amended: with --older-than 3, a pod of a non-excluded namespace created
\* exactly 3*24h or 3*24h + 1s before now is not in the batch (its whole-day age
\* is 3), and one created 4*24h before now is in the batch.
C1_AgeBoundary ==
    (Filtered /\ args.older_than = 3) =>
        \A i \in Listed :
            LET p == pod_list[i] IN
            (~is_match(p.ns) /\ p.ct # None) =>
                /\ (AgeOf(p) \in {3 * DaySecs, 3 * DaySecs + 1} /\ NoHomonym(i))
                       => ~InBatch(p.name)
                /\ AgeOf(p) = 4 * DaySecs => InBatch(p.name)

\* C1 witness: a pod aged 3*24h + 1s was listed and filtered out under threshold 3.
C1_Witness ==
    /\ Filtered
    /\ args.older_than = 3
    /\ \E i \in Listed :
        /\ ~is_match(pod_list[i].ns)
        /\ pod_list[i].ct # None
        /\ AgeOf(pod_list[i]) = 3 * DaySecs + 1
        /\ NoHomonym(i)
        /\ ~InBatch(pod_list[i].name)

\* pod_list[i] has this name, is in a non-excluded namespace and has a creation
\* timestamp.
Eligible(i, name) ==
    /\ pod_list[i].name = name
    /\ ~is_match(pod_list[i].ns)
    /\ pod_list[i].ct # None

\* C2 as stated: the batch holds one entry for each listed pod of a non-excluded
\* namespace that has a creation timestamp and floor(age / 1 day) > olderThan, and
\* no other entry.
C2_SelectionAsStated ==
    Filtered =>
        \A name \in PodNames \cup Range(bad_pods) :
            Count(bad_pods, name) =
                Cardinality({i \in Listed :
                    /\ Eligible(i, name)
                    /\ WholeDaysFloor(AgeOf(pod_list[i])) > args.older_than})

\* C2 amended: the batch holds one entry for each listed pod of a non-excluded
\* namespace that has a creation timestamp and whose age in whole days, rounded
\* toward zero, is > olderThan (strict), and no other entry; a pod without a
\* creation timestamp has no entry.
C2_Selection ==
    Filtered =>
        \A name \in PodNames \cup Range(bad_pods) :
            Count(bad_pods, name) =
                Cardinality({i \in Listed :
                    /\ Eligible(i, name)
                    /\ WholeDaysTrunc(AgeOf(pod_list[i])) > args.older_than})

\* C2 witness: under threshold -1, a pod created one second ahead of the clock
\* (whole-day age 0, floor -1) is in the batch.
C2_Witness ==
    /\ Filtered
    /\ args.older_than = -1
    /\ \E i \in Listed :
        /\ ~is_match(pod_list[i].ns)
        /\ pod_list[i].ct # None
        /\ AgeOf(pod_list[i]) = -1
        /\ InBatch(pod_list[i].name)

\* C3 as stated: a pod is exempt iff its whole namespace name matches the pattern:
\* a pod of kube-system is never in the batch, and an old enough pod whose
\* namespace does not match as a whole (default, or kube inside the name) is.
C3_AnchoredExclusion ==
    Filtered =>
        \A i \in Listed :
            LET p == pod_list[i] IN
            /\ (AnchoredMatch(p.ns) /\ NoHomonym(i)) => ~InBatch(p.name)
            /\ (~AnchoredMatch(p.ns) /\ IsBadPod(p)) => InBatch(p.name)

\* C4: the delete calls issued and not yet completed are at most 10.
C4_ConcurrencyBound ==
    Len(delete_calls) - Cardinality(DOMAIN results) <= BufferLimit

\* C4 witness: 10 calls are outstanding while names of the batch still wait.
C4_Witness ==
    /\ Len(delete_calls) - Cardinality(DOMAIN results) = BufferLimit
    /\ Len(delete_calls) < Len(bad_pods)

\* C5: without --actually-delete no delete call is issued and no pod is removed,
\* and the reported count is the number of selected pods.
C5_DryRun ==
    ~args.actually_delete =>
        /\ delete_calls = <<>>
        /\ in_flight = {}
        /\ Filtered =>
            reported = Some(Cardinality({i \in Listed :
                                NotExcluded(pod_list[i]) /\ IsBadPod(pod_list[i])}))

\* C5 witness: a dry run with two selected pods has ended.
C5_Witness ==
    /\ ~args.actually_delete
    /\ pc = "done"
    /\ Len(bad_pods) >= 2
    /\ reported = Some(2)

\* C6: with --actually-delete, a pass that ends has issued exactly one delete call
\* for every entry of the batch, whatever the outcomes, and every call completed;
\* before that no name has more calls than entries (no retry).
C6_FailureIsolation ==
    args.actually_delete =>
        /\ \A name \in Range(bad_pods) \cup Range(delete_calls) :
               Count(delete_calls, name) <= Count(bad_pods, name)
        /\ (pc = "done") =>
               /\ \A name \in Range(bad_pods) :
                      Count(delete_calls, name) = Count(bad_pods, name)
               /\ DOMAIN results = 1..Len(bad_pods)

\* C6 witness: a pass has ended in which a delete failed and a delete issued
\* after that failure succeeded.
C6_Witness ==
    /\ pc = "done"
    /\ args.actually_delete
    /\ Len(bad_pods) > BufferLimit
    /\ results[1] = "err"
    /\ results[Len(bad_pods)] = "ok"

(***************************************************************************)
(* Properties of the controller.                                           *)
(***************************************************************************)
Instances == 1..Len(instances)

ApplyOrder == <<"ServiceAccount", "RoleBinding", "CronJob">>

\* The key of the k-th object a pass of instance i applies.
KeyOfStep(i, k) ==
    CASE k = 1 -> KeyOf(ServiceAccountOf(i))
      [] k = 2 -> KeyOf(RoleBindingOf(i))
      [] k = 3 -> KeyOf(CronJobOf(i))

\* C7: the apply calls of a pass are a prefix of ServiceAccount, RoleBinding,
\* CronJob, each issued only after the one before it succeeded; a failed apply is
\* the last call of its pass, which ends in failure, and what the pass applied
\* before stays applied; a pass that succeeds has issued all three.
C7_StepOrder ==
    \A i \in Instances :
        LET c == pass[i].calls IN
        /\ Len(c) <= Len(ApplyOrder)
        /\ c = SubSeq(ApplyOrder, 1, Len(c))
        /\ pass[i].applied <= Len(c)
        /\ Len(c) <= pass[i].applied + 1
        /\ Len(c) = pass[i].applied + 1 =>
               /\ pass[i].pc = "idle"
               /\ pass[i].outcome = Some("err")
        /\ pass[i].outcome = Some("err") =>
               \A k \in 1..pass[i].applied : KeyOfStep(i, k) \in DOMAIN children
        /\ pass[i].outcome = Some("ok") => c = ApplyOrder /\ pass[i].applied = 3

\* C7 witness: a pass failed at the RoleBinding; its ServiceAccount is applied and
\* no CronJob call was issued.
C7_Witness ==
    \E i \in Instances :
        /\ pass[i].outcome = Some("err")
        /\ pass[i].calls = <<"ServiceAccount", "RoleBinding">>
        /\ pass[i].applied = 1
        /\ KeyOfStep(i, 1) \in DOMAIN children

Defective(i) ==
    \/ instances[i].metadata.namespace = None
    \/ instances[i].metadata.name = None
    \/ instances[i].metadata.uid = None

\* C8: a pass of an instance without namespace, name or uid ends in a failure
\* that is requeued after the short delay, issues no apply call, and does not
\* crash the controller.
C8_ConfigurationDefect ==
    \A i \in Instances :
        (Defective(i) /\ pass[i].started > 0) =>
            /\ ~crashed
            /\ pass[i].pc = "idle"
            /\ pass[i].outcome = Some("err")
            /\ pass[i].requeue = Some(RequeueErr)
            /\ pass[i].calls = <<>>

C10_RequeuePolicy ==
    /\ RequeueErr < RequeueOk
    /\ \A i \in Instances :
        /\ pass[i].outcome = Some("ok") => pass[i].requeue = Some(RequeueOk)
        /\ pass[i].outcome = Some("err") => pass[i].requeue = Some(RequeueErr)
        /\ (pass[i].pc = "idle" /\ pass[i].started > 0) => pass[i].requeue # None

\* C10 witness: an instance has failed twice in a row for a missing key and
\* another failed in an apply call; both are requeued after 1s.
C10_Witness ==
    \E i, j \in Instances :
        /\ pass[i].error = Some("MissingObjectKey")
        /\ pass[i].failures >= 2
        /\ pass[i].requeue = Some(RequeueErr)
        /\ pass[j].error = Some("CronJobCreationFailed")
        /\ pass[j].requeue = Some(RequeueErr)

\* The decimal text of a threshold of the model.
DaysText(n) == IF n < 0 THEN "-" \o ToString(-n) ELSE ToString(n)

\* The number of elements a selector adds to the arguments.
SelectorArgs(sel) == IF sel = None THEN 0 ELSE 2

\* C11: the CronJob of an instance is named <instance-name>-clean-job and its
\* arguments are, in this order, --actually-delete, -n and the namespace of the
\* instance, -l and the label selector only if there is one, -f and the field
\* selector only if there is one, --older-than and deleteOlderThanDays; an absent
\* selector adds no argument. In namespace ci with label selector app=build, no
\* field selector and 3 days: --actually-delete -n ci -l app=build --older-than 3.
C11_ArgumentMapping ==
    \A key \in DOMAIN children :
        key[1] = "CronJob" =>
            LET o == children[key]
                g == instances[o.applied_by]
                sp == g.spec
                a == o.args
                l == SelectorArgs(sp.label_selector)
                f == SelectorArgs(sp.field_selector)
            IN  /\ Some(NsText(g.metadata.namespace[1])) = Some(key[2])
                /\ key[3] = g.metadata.name[1] \o "-clean-job"
                /\ o.name = key[3]
                /\ Len(a) = 3 + l + f + 2
                /\ SubSeq(a, 1, 3) = <<"--actually-delete", "-n", key[2]>>
                /\ sp.label_selector # None =>
                       SubSeq(a, 4, 5) = <<"-l", sp.label_selector[1]>>
                /\ sp.label_selector = None => "-l" \notin Range(a)
                /\ sp.field_selector # None =>
                       SubSeq(a, 4 + l, 5 + l) = <<"-f", sp.field_selector[1]>>
                /\ sp.field_selector = None => "-f" \notin Range(a)
                /\ SubSeq(a, 4 + l + f, 5 + l + f) =
                       <<"--older-than", DaysText(sp.delete_older_than)>>
                /\ "" \notin Range(a)
                /\ (key[2] = "ci" /\ sp.label_selector = Some("app=build")
                        /\ sp.field_selector = None /\ sp.delete_older_than = 3) =>
                       a = <<"--actually-delete", "-n", "ci", "-l", "app=build",
                             "--older-than", "3">>

\* C11 witness: the CronJob a-clean-job of namespace ci was applied for an instance
\* with label selector app=build, no field selector and 3 days.
C11_Witness ==
    /\ <<"CronJob", "ci", "a-clean-job">> \in DOMAIN children
    /\ children[<<"CronJob", "ci", "a-clean-job">>].args =
           <<"--actually-delete", "-n", "ci", "-l", "app=build", "--older-than", "3">>

\* The k-th object a pass of instance i applies.
Desired(i, k) ==
    CASE k = 1 -> ServiceAccountOf(i)
      [] k = 2 -> RoleBindingOf(i)
      [] k = 3 -> CronJobOf(i)

\* The three children of instance i exist as its pass describes them.
Converged(i) ==
    /\ ~Defective(i)
    /\ \A k \in 1..3 :
        /\ KeyOfStep(i, k) \in DOMAIN children
        /\ children[KeyOfStep(i, k)] = Desired(i, k)

\* C12: a pass over an unchanged instance computes the descriptors the pass
\* before it computed, and a step of a pass of an instance whose three children
\* are in place as applied leaves the generated objects as they are: the same
\* objects, none added, none twice, no field changed.
C12_Idempotence ==
    [][\A i \in Instances :
          /\ ~Defective(i) => \A k \in 1..3 : Desired(i, k)' = Desired(i, k)
          /\ (Converged(i) /\ pass'[i] # pass[i]) => children' = children]_vars

\* C12 witness: the only instance was reconciled twice with no failure, and its
\* three children are in place after the second pass.
C12_Witness ==
    /\ Len(instances) = 1
    /\ api_faults = MaxApiFaults
    /\ pass[1].started >= 2
    /\ pass[1].outcome = Some("ok")
    /\ Converged(1)
    /\ Cardinality(DOMAIN children) = 3

\* C13 as stated: the batch has set semantics over the identity (namespace, name)
\* of a pod: no two entries are equal and every entry identifies exactly one
\* listed pod, with --namespace and without it.
C13_BatchIdentity ==
    Filtered =>
        /\ \A i, j \in 1..Len(bad_pods) : bad_pods[i] = bad_pods[j] => i = j
        /\ \A i \in 1..Len(bad_pods) :
               Cardinality({j \in Listed : pod_list[j].name = bad_pods[i]}) = 1

\* C14: a pass that cannot connect, whose pattern does not compile or whose list
\* call fails ends with a non-zero exit code and has issued no delete call; a
\* pass whose list call succeeded ends with exit code 0, as a dry run and for real.
C14_FatalErrors ==
    /\ exit_code # None <=> pc \in {"failed", "done"}
    /\ pc = "failed" =>
           /\ exit_code # Some(0)
           /\ delete_calls = <<>>
           /\ in_flight = {}
           /\ reported = None
    /\ args.exclude_namespace_pattern = BrokenPattern =>
           /\ pc \in {"start", "connected", "failed"}
           /\ delete_calls = <<>>
    /\ pc \in {"listed", "filtered", "deleting"} => exit_code = None
    /\ pc = "done" => exit_code = Some(0) /\ reported # None

\* C14 witness: a real sweep whose pattern does not compile has ended in failure.
C14_Witness ==
    /\ pc = "failed"
    /\ exit_code = Some(1)
    /\ args.actually_delete
    /\ args.exclude_namespace_pattern = BrokenPattern

\* The keys of the three objects of instance i, in its own namespace.
ExpectedKeys(i) ==
    IF Defective(i) THEN {}
    ELSE LET ns == NsText(instances[i].metadata.namespace[1]) IN
         {<<"ServiceAccount", ns, "shopvac">>,
          <<"RoleBinding", ns, "shopvac-delete-rb">>,
          <<"CronJob", ns, instances[i].metadata.name[1] \o "-clean-job">>}

\* The keys whose object a step has created or changed.
Written == {key \in DOMAIN children' :
               IF key \in DOMAIN children THEN children'[key] # children[key] ELSE TRUE}

\* C16: a step of a reconcile pass of an instance is an apply call at most: a
\* pass issues at most three calls, one per kind; it writes only the
\* ServiceAccount shopvac, the RoleBinding shopvac-delete-rb and the CronJob
\* <name>-clean-job of the namespace of its instance; it removes no object, and
\* every object of another namespace or of another key stays as it is.
C16_Frame ==
    [][/\ DOMAIN children \subseteq DOMAIN children'
       /\ pass' = pass => children' = children
       /\ \A i \in Instances :
              pass'[i] # pass[i] =>
                  /\ Written \subseteq ExpectedKeys(i)
                  /\ \A j \in Instances : j # i => pass'[j] = pass[j]
                  /\ Len(pass'[i].calls) <= 3
                  /\ Len(pass'[i].calls) <= Len(pass[i].calls) + 1
                  /\ \A a, b \in 1..Len(pass'[i].calls) :
                         pass'[i].calls[a] = pass'[i].calls[b] => a = b]_vars

\* C16 witness: the instances of two namespaces have both been reconciled; the
\* three objects of each are those its own pass applied.
C16_Witness ==
    /\ Len(instances) = 2
    /\ ~Defective(1) /\ ~Defective(2)
    /\ instances[2].metadata.namespace = Some(NsDefault)
    /\ pass[1].outcome = Some("ok") /\ pass[2].outcome = Some("ok")
    /\ \A i \in {1, 2} : \A key \in ExpectedKeys(i) :
           key \in DOMAIN children /\ children[key].applied_by = i
    /\ Cardinality(DOMAIN children) = 6

\* C20: if every delete call that is issued completes, a pass whose list call
\* succeeded ends; it ends only when every issued delete call has completed:
\* at its end no call is outstanding and, in delete mode, every entry of the
\* batch has had its call.
C20_Termination ==
    /\ [](pc = "done" =>
             /\ in_flight = {}
             /\ args.actually_delete =>
                    /\ next_idx = Len(bad_pods)
                    /\ Len(delete_calls) = Len(bad_pods)
                    /\ DOMAIN results = 1..Len(bad_pods))
    /\ (pc = "listed") ~> (pc = "done")

\* C20 witness: a pass over a batch of MaxLiveBatch names has ended with every one
\* of its delete calls completed.
C20_Witness ==
    /\ pc = "done"
    /\ Len(bad_pods) = MaxLiveBatch
    /\ Len(delete_calls) = MaxLiveBatch
    /\ \A i \in 1..MaxLiveBatch : i \in DOMAIN results /\ results[i] = "ok"

\* C18 as stated: a pod that a delete call of the sweep removes is a pod the
\* sweep listed and selected; a pod created after the list call under the name
\* of a selected pod is not removed by the sweep.
C18_OnlySelected ==
    [][(results' # results) =>
          \A p \in Range(cluster) \ Range(cluster') :
              \E j \in Listed :
                  /\ pod_list[j] = p
                  /\ NotExcluded(p)
                  /\ IsBadPod(p)]_vars

\* C17 as stated: while instances are created, reconciled (each pass succeeding
\* or failing at any step) and deleted with their owned children collected, and
\* nobody else edits the objects: whenever the CronJob of an instance that still
\* exists is there, the ServiceAccount shopvac and the RoleBinding
\* shopvac-delete-rb of its namespace are there.
C17_PermissionsBeforeJobs ==
    \A i \in Instances :
        (i \notin deleted /\ ~Defective(i) /\ KeyOfStep(i, 3) \in DOMAIN children) =>
            /\ KeyOfStep(i, 1) \in DOMAIN children
            /\ KeyOfStep(i, 2) \in DOMAIN children

\* The k-th child of instance i exists as the pass of i describes it.
InPlace(i, k) ==
    /\ i <= Len(instances)
    /\ KeyOfStep(i, k) \in DOMAIN children
    /\ children[KeyOfStep(i, k)] = Desired(i, k)

C19_ScheduledScope ==
    /\ [](/\ args.namespace = instances[1].metadata.namespace
          /\ args.actually_delete
          /\ \A j \in Listed : Some(pod_list[j].ns) = instances[1].metadata.namespace
          /\ AnchoredMatch(instances[1].metadata.namespace[1]) => delete_calls = <<>>)
    /\ [][\A p \in Range(cluster) \ Range(cluster') :
              Some(p.ns) = instances[1].metadata.namespace]_vars

\* C19 witness: the sweep of an instance has ended after removing a pod of its
\* namespace, and an old pod of another namespace that is not exempt is still there.
C19_Witness ==
    /\ Len(instances) = 1
    /\ args # None
    /\ args.namespace = instances[1].metadata.namespace
    /\ pc = "done"
    /\ \E i \in DOMAIN results : results[i] = "ok"
    /\ \E p \in Range(cluster) :
        /\ Some(p.ns) # instances[1].metadata.namespace
        /\ NotExcluded(p)
        /\ IsBadPod(p)

====
